---- MODULE Spec2Model ----
(***************************************************************************)
(* Tide calendar service: the fetch -> parse_tide_events -> create_ical    *)
(* pipeline of src/tide_calendar.py (used by src/server.py and by the      *)
(* command line) and of src/api/index.py (the serverless copy).            *)
(*                                                                         *)
(* Text is a sequence of one-character strings, so that concatenation,     *)
(* parsing and formatting are computed character by character.  The        *)
(* module is ASCII only; the non-ASCII literals of the source are written  *)
(* with these stand-ins:                                                   *)
(*    tide kind  U+6EFF U+6F6E (high tide)  ->  "HI"                       *)
(*    tide kind  U+4E7E U+6F6E (low tide)   ->  "LO"                       *)
(*    glyph      U+1F53A (up triangle)      ->  "^"                        *)
(*    glyph      U+1F53B (down triangle)    ->  "v"                        *)
(*    U+5E02 -> "#"   U+7E23 -> "!"   U+5340 -> "&"                        *)
(*    U+9109 -> "~"   U+93AE -> "$"   (the suffixes short_name removes)    *)
(* A datetime is [wall, aware, off]: wall is the wall-clock reading in     *)
(* seconds since 1970-01-01T00:00:00 of its own zone, aware says whether   *)
(* it carries a tzinfo, off is its UTC offset in seconds (0 when naive).   *)
(***************************************************************************)
EXTENDS Integers, Sequences, FiniteSets, TLC

-----------------------------------------------------------------------------
(* Python values that come out of response.json()                          *)

JNull == [t |-> "null"]
JStr(s) == [t |-> "str", s |-> s]
JNum(n) == [t |-> "num", n |-> n]
JList(a) == [t |-> "list", a |-> a]
JObj(m) == [t |-> "obj", m |-> m]
EmptyObj == [t |-> "obj", m |-> <<>>]
EmptyStr == JStr(<<>>)
EmptyList == JList(<<>>)

\* an exception in flight, in place of a value
Raise(exc) == [t |-> "raise", exc |-> exc]
IsRaise(v) == "t" \in DOMAIN v /\ v.t = "raise"

\* dict.get(k, default); any other receiver has no attribute get
Get(v, k, default) ==
    IF IsRaise(v) THEN v
    ELSE IF v.t = "obj" THEN (IF k \in DOMAIN v.m THEN v.m[k] ELSE default)
    ELSE Raise("AttributeError")

\* bool(v)
Truthy(v) ==
    CASE v.t = "null" -> FALSE
      [] v.t = "str" -> v.s # <<>>
      [] v.t = "num" -> v.n # 0
      [] v.t = "list" -> v.a # <<>>
      [] v.t = "obj" -> DOMAIN v.m # {}
      [] OTHER -> TRUE

\* a or b or c
Or3(a, b, c) == IF Truthy(a) THEN a ELSE IF Truthy(b) THEN b ELSE c

\* the items a for loop over v visits: the elements of a list, the keys of a
\* dict and the characters of a str (both str, their text is never read
\* before the loop body fails on them); None and numbers are not iterable
Iter(v) ==
    IF IsRaise(v) THEN v
    ELSE CASE v.t = "list" -> v
           [] v.t = "obj" -> JList([i \in 1..Cardinality(DOMAIN v.m) |-> JStr(<<"k">>)])
           [] v.t = "str" -> JList([i \in 1..Len(v.s) |-> JStr(<<v.s[i]>>)])
           [] OTHER -> Raise("TypeError")

-----------------------------------------------------------------------------
(* Digits and text                                                         *)

DigitChars == <<"0", "1", "2", "3", "4", "5", "6", "7", "8", "9">>
IsDigit(c) == \E i \in 1..10 : DigitChars[i] = c
DigitVal(c) == (CHOOSE i \in 1..10 : DigitChars[i] = c) - 1

AllDigits(s, i, j) == \A k \in i..j : IsDigit(s[k])

RECURSIVE NumVal(_, _, _)
NumVal(s, i, j) == IF j < i THEN 0 ELSE NumVal(s, i, j - 1) * 10 + DigitVal(s[j])

\* n written with exactly w digits, zero padded (n < 10^w)
RECURSIVE Pad(_, _)
Pad(n, w) == IF w = 0 THEN <<>> ELSE Pad(n \div 10, w - 1) \o <<DigitChars[(n % 10) + 1]>>

\* str(n) for n >= 0
RECURSIVE Dec(_)
Dec(n) == IF n < 10 THEN <<DigitChars[n + 1]>> ELSE Dec(n \div 10) \o <<DigitChars[(n % 10) + 1]>>

\* what an f-string writes for a value
PyStr(v) ==
    CASE v.t = "str" -> v.s
      [] v.t = "null" -> <<"N", "o", "n", "e">>
      [] v.t = "num" -> IF v.n < 0 THEN <<"-">> \o Dec(-v.n) ELSE Dec(v.n)
      [] v.t = "list" -> <<"[", "]">>
      [] OTHER -> <<"{", "}">>

RECURSIVE Flatten(_)
Flatten(ss) == IF ss = <<>> THEN <<>> ELSE Head(ss) \o Flatten(Tail(ss))

\* s.replace(c, "") for a one-character c
RECURSIVE Remove(_, _)
Remove(s, c) ==
    IF s = <<>> THEN <<>>
    ELSE (IF Head(s) = c THEN <<>> ELSE <<Head(s)>>) \o Remove(Tail(s), c)

\* urllib.parse.unquote: each %XX becomes the character of code XX.  The
\* printable ASCII characters are written out; the double quote, the
\* backslash, the backtick and every byte outside them are written "?"
Ascii ==
    <<" ", "!", "?", "#", "$", "%", "&", "'", "(", ")", "*", "+", ",", "-", ".", "/",
      "0", "1", "2", "3", "4", "5", "6", "7", "8", "9", ":", ";", "<", "=", ">", "?",
      "@", "A", "B", "C", "D", "E", "F", "G", "H", "I", "J", "K", "L", "M", "N", "O",
      "P", "Q", "R", "S", "T", "U", "V", "W", "X", "Y", "Z", "[", "?", "]", "^", "_",
      "?", "a", "b", "c", "d", "e", "f", "g", "h", "i", "j", "k", "l", "m", "n", "o",
      "p", "q", "r", "s", "t", "u", "v", "w", "x", "y", "z", "{", "|", "}", "~">>
HexChars == <<"0", "1", "2", "3", "4", "5", "6", "7", "8", "9",
              "A", "B", "C", "D", "E", "F", "a", "b", "c", "d", "e", "f">>
IsHex(c) == \E i \in 1..Len(HexChars) : HexChars[i] = c
HexVal(c) ==
    LET i == CHOOSE k \in 1..Len(HexChars) : HexChars[k] = c
    IN IF i <= 16 THEN i - 1 ELSE i - 7
RECURSIVE Unquote(_)
Unquote(s) ==
    IF s = <<>> THEN <<>>
    ELSE IF Len(s) >= 3 /\ s[1] = "%" /\ IsHex(s[2]) /\ IsHex(s[3])
    THEN LET code == HexVal(s[2]) * 16 + HexVal(s[3])
         IN <<IF code >= 32 /\ code <= 126 THEN Ascii[code - 31] ELSE "?">>
               \o Unquote(SubSeq(s, 4, Len(s)))
    ELSE <<Head(s)>> \o Unquote(Tail(s))

-----------------------------------------------------------------------------
(* Dates: the proleptic Gregorian calendar of datetime                      *)

Minute == 60
Hour == 60 * Minute
Day == 24 * Hour

IsLeap(y) == (y % 4 = 0 /\ y % 100 # 0) \/ y % 400 = 0
DaysInMonth(y, m) ==
    IF m = 2 THEN (IF IsLeap(y) THEN 29 ELSE 28)
    ELSE IF m \in {4, 6, 9, 11} THEN 30 ELSE 31

\* days from 1970-01-01 to y-m-d, the year counted from March: yy is the
\* shifted year, yoe the year of its 400-year era, doy the day of that year
DayOfShiftedYear(m, d) == (153 * (IF m > 2 THEN m - 3 ELSE m + 9) + 2) \div 5 + d - 1
DayOfEra(yoe, doy) == yoe * 365 + yoe \div 4 - yoe \div 100 + doy
DaysFromShifted(yy, m, d) ==
    (yy \div 400) * 146097 + DayOfEra(yy - (yy \div 400) * 400, DayOfShiftedYear(m, d))
        - 719468
DaysFromCivil(y, m, d) == DaysFromShifted(IF m <= 2 THEN y - 1 ELSE y, m, d)

\* [y, m, d] of the day z days after 1970-01-01, by the same steps backwards
YearOfEra(doe) == (doe - doe \div 1460 + doe \div 36524 - doe \div 146096) \div 365
CivilOfMonth(era, yoe, doy, mp) ==
    [y |-> yoe + era * 400 + (IF mp < 10 THEN 0 ELSE 1),
     m |-> IF mp < 10 THEN mp + 3 ELSE mp - 9,
     d |-> doy - (153 * mp + 2) \div 5 + 1]
CivilOfDay(era, yoe, doy) == CivilOfMonth(era, yoe, doy, (5 * doy + 2) \div 153)
CivilOfYear(era, doe, yoe) ==
    CivilOfDay(era, yoe, doe - (365 * yoe + yoe \div 4 - yoe \div 100))
CivilOfEra(era, doe) == CivilOfYear(era, doe, YearOfEra(doe))
CivilFromShifted(zz) == CivilOfEra(zz \div 146097, zz % 146097)
CivilFromDays(z) == CivilFromShifted(z + 719468)

DT(wall, aware, off) == [wall |-> wall, aware |-> aware, off |-> off]

\* the offset of Asia/Taipei (TW_TZ), which has had no DST since 1979
TaipeiOffset == 8 * Hour

\* event_dt + timedelta(seconds = s)
PlusSeconds(dt, s) == [dt EXCEPT !.wall = @ + s]

\* the instant an aware datetime denotes, in seconds since the epoch in UTC
Instant(dt) == dt.wall - dt.off

\* datetime.fromisoformat on the forms YYYY-MM-DDxHH:MM:SS and
\* YYYY-MM-DDxHH:MM:SS+HH:MM (x any one character); every other text the
\* model feeds it is one no version of fromisoformat accepts.
\* Returns a datetime, or Raise("ValueError").
FromIsoFormat(s) ==
    LET n == Len(s)
        shape == /\ n \in {19, 25}
                 /\ AllDigits(s, 1, 4) /\ s[5] = "-" /\ AllDigits(s, 6, 7)
                 /\ s[8] = "-" /\ AllDigits(s, 9, 10)
                 /\ AllDigits(s, 12, 13) /\ s[14] = ":" /\ AllDigits(s, 15, 16)
                 /\ s[17] = ":" /\ AllDigits(s, 18, 19)
                 /\ n = 25 => /\ s[20] \in {"+", "-"}
                              /\ AllDigits(s, 21, 22) /\ s[23] = ":"
                              /\ AllDigits(s, 24, 25)
        y == NumVal(s, 1, 4)
        m == NumVal(s, 6, 7)
        d == NumVal(s, 9, 10)
        hh == NumVal(s, 12, 13)
        mi == NumVal(s, 15, 16)
        ss == NumVal(s, 18, 19)
        oh == NumVal(s, 21, 22)
        om == NumVal(s, 24, 25)
        sign == IF s[20] = "-" THEN -1 ELSE 1
        inrange == /\ y >= 1 /\ m \in 1..12 /\ d >= 1 /\ d <= DaysInMonth(y, m)
                   /\ hh <= 23 /\ mi <= 59 /\ ss <= 59
                   /\ n = 25 => (oh <= 23 /\ om <= 59)
        wall == DaysFromCivil(y, m, d) * Day + hh * Hour + mi * Minute + ss
    IN IF ~shape THEN Raise("ValueError")
       ELSE IF ~inrange THEN Raise("ValueError")
       ELSE IF n = 25 THEN DT(wall, TRUE, sign * (oh * Hour + om * Minute))
       ELSE DT(wall, FALSE, 0)

\* event_dt.strftime('%Y%m%d%H%M'): the wall-clock reading to the minute;
\* seconds and the UTC offset are not written
StrftimeOf(c, sod) ==
    Pad(c.y, 4) \o Pad(c.m, 2) \o Pad(c.d, 2)
        \o Pad(sod \div Hour, 2) \o Pad((sod % Hour) \div Minute, 2)
Strftime(dt) == StrftimeOf(CivilFromDays(dt.wall \div Day), dt.wall % Day)

\* the text the upstream writes for a reading: 2025-12-29T05:01:00+08:00,
\* or without the offset when aware is FALSE
OffsetText(sign, a) ==
    <<sign>> \o Pad(a \div Hour, 2) \o <<":">> \o Pad((a % Hour) \div Minute, 2)
IsoTextOf(c, sod, offset) ==
    Pad(c.y, 4) \o <<"-">> \o Pad(c.m, 2) \o <<"-">> \o Pad(c.d, 2) \o <<"T">>
        \o Pad(sod \div Hour, 2) \o <<":">> \o Pad((sod % Hour) \div Minute, 2)
        \o <<":">> \o Pad(sod % Minute, 2) \o offset
IsoText(dt) ==
    IsoTextOf(CivilFromDays(dt.wall \div Day), dt.wall % Day,
              IF ~dt.aware THEN <<>>
              ELSE IF dt.off < 0 THEN OffsetText("-", -dt.off)
              ELSE OffsetText("+", dt.off))

-----------------------------------------------------------------------------
(* Literal text of the source                                               *)

HighTide == <<"H", "I">>
LowTide == <<"L", "O">>
GlyphUp == <<"^">>
GlyphDown == <<"v">>
Suffixes == <<"#", "!", "&", "~", "$">>
TxtProdPre == <<"-", "/", "/", "T", "i", "d", "e", "C", "a", "l", "/", "/">>
TxtProdPost == <<"/", "/", "T", "W">>
TxtCalPre == <<"W", " ">>
TxtCalPost == <<"T", "i", "d", "e">>
TxtTimezone == <<"A", "s", "i", "a", "/", "T", "a", "i", "p", "e", "i">>
TxtCm == <<"c", "m">>
TxtStation == <<"S", "t", "a", "t", "i", "o", "n", ":", " ">>
TxtType == <<"T", "y", "p", "e", ":", " ">>
TxtHeight == <<"H", "e", "i", "g", "h", "t", ":", " ">>
TxtHeightUnit == <<" ", "c", "m", " ", "(", "M", "S", "L", ")">>
TxtLunar == <<"L", "u", "n", "a", "r", ":", " ">>
TxtUidDomain == <<"@", "t", "i", "d", "e", ".", "t", "w">>
NL == <<"\n">>
SP == <<" ">>
Dash == <<"-">>

\* which copy of TideCalendarGenerator a program runs: server.py and the
\* command line import tide_calendar.py, the serverless app has its own
LibOf(program) == IF program = "api" THEN "api_index" ELSE "tide_calendar"

-----------------------------------------------------------------------------
(* parse_tide_events                                                        *)

Ok(events) == [exc |-> "none", events |-> events]
Fail(exc) == [exc |-> exc, events |-> <<>>]

\* the outcome of a loop whose i-th pass gives rs[i]: the first exception
\* ends it, otherwise the events are appended in order
Combine(rs) ==
    IF \E i \in DOMAIN rs : rs[i].exc # "none"
    THEN Fail(rs[CHOOSE i \in DOMAIN rs :
                    /\ rs[i].exc # "none"
                    /\ \A j \in 1..(i - 1) : rs[j].exc = "none"].exc)
    ELSE Ok(Flatten([i \in DOMAIN rs |-> rs[i].events]))

\* height_above_local or height_above_twvd or height_above_chart
\* (tide_calendar.py); the serverless copy asks AboveTWVD first
HeightOf(tide_height, lib) ==
    LET local == Get(tide_height, "AboveLocalMSL", EmptyStr)
        twvd == Get(tide_height, "AboveTWVD", EmptyStr)
        chart == Get(tide_height, "AboveChartDatum", EmptyStr)
    IN IF IsRaise(local) THEN local
       ELSE IF lib = "api_index" THEN Or3(twvd, local, chart)
       ELSE Or3(local, twvd, chart)

\* the body of "for tide_info in time_list"
ParseRow(tide_info, lunar_date, lib) ==
    LET tide_type == Get(tide_info, "Tide", EmptyStr)
        date_time_str == Get(tide_info, "DateTime", EmptyStr)
        tide_height == Get(tide_info, "TideHeights", EmptyObj)
        height == HeightOf(tide_height, lib)
        dt == FromIsoFormat(date_time_str.s)
    IN IF IsRaise(tide_type) THEN Fail(tide_type.exc)
       ELSE IF IsRaise(height) THEN Fail(height.exc)
       ELSE IF ~Truthy(date_time_str) THEN Ok(<<>>)
       ELSE IF date_time_str.t # "str" THEN Fail("TypeError")
       ELSE IF IsRaise(dt) THEN Ok(<<>>)
       ELSE Ok(<<[datetime |-> dt, type |-> tide_type, height |-> height,
                  lunar_day |-> lunar_date]>>)

\* the body of "for daily in daily_list"
ParseDaily(daily, lib) ==
    LET lunar_date == Get(daily, "LunarDate", EmptyStr)
        time_list == Iter(Get(daily, "Time", EmptyList))
    IN IF IsRaise(time_list) THEN Fail(time_list.exc)
       ELSE Combine([i \in 1..Len(time_list.a) |->
                        ParseRow(time_list.a[i], lunar_date, lib)])

\* the body of "for forecast in tide_forecasts"; only tide_calendar.py
\* skips the blocks of other stations
ParseForecast(forecast, station_name, lib) ==
    LET location == Get(forecast, "Location", EmptyObj)
        location_name == Get(location, "LocationName", EmptyStr)
        time_periods == Get(location, "TimePeriods", EmptyObj)
        daily_list == Iter(Get(time_periods, "Daily", EmptyList))
    IN IF IsRaise(location_name) THEN Fail(location_name.exc)
       ELSE IF lib = "tide_calendar" /\ location_name # JStr(station_name) THEN Ok(<<>>)
       ELSE IF IsRaise(daily_list) THEN Fail(daily_list.exc)
       ELSE Combine([i \in 1..Len(daily_list.a) |-> ParseDaily(daily_list.a[i], lib)])

\* parse_tide_events(api_data) of the generator for station_name:
\* [exc, events], exc the exception it raises or "none"
ParseTideEvents(api_data, station_name, lib) ==
    LET records == Get(api_data, "records", EmptyObj)
        tide_forecasts ==
            Iter(Get(records, "TideForecasts", Get(records, "TideForecast", EmptyList)))
    IN IF IsRaise(tide_forecasts) THEN Fail(tide_forecasts.exc)
       ELSE Combine([i \in 1..Len(tide_forecasts.a) |->
                        ParseForecast(tide_forecasts.a[i], station_name, lib)])

-----------------------------------------------------------------------------
(* create_ical                                                              *)

\* now = datetime.now(TW_TZ) for the clock reading t (seconds, UTC)
NowAt(t) == DT(t + TaipeiOffset, TRUE, TaipeiOffset)

\* "if event_dt < start or event_dt > cutoff: continue" is not taken.
\* api/index.py: start = now - timedelta(days=1); tide_calendar.py compares
\* with now itself
InWindow(event_dt, now, days_ahead, lib) ==
    LET cutoff == Instant(now) + days_ahead * Day
        start == IF lib = "api_index" THEN Instant(now) - Day ELSE Instant(now)
    IN ~(Instant(event_dt) < start \/ Instant(event_dt) > cutoff)

\* station_name.replace(...) five times
ShortName(station_name) ==
    Remove(Remove(Remove(Remove(Remove(station_name, Suffixes[1]), Suffixes[2]),
                         Suffixes[3]), Suffixes[4]), Suffixes[5])

\* uid = f"{event_dt.strftime('%Y%m%d%H%M')}-{tide_type}-{self.station_name}@tide.tw"
Uid(event_dt, tide_type, station_name) ==
    Strftime(event_dt) \o Dash \o PyStr(tide_type) \o Dash \o station_name \o TxtUidDomain

Summary(tide_type, height, station_name) ==
    ShortName(station_name) \o SP
        \o (IF tide_type = JStr(HighTide) THEN GlyphUp ELSE GlyphDown)
        \o PyStr(tide_type)
        \o (IF Truthy(height) THEN SP \o PyStr(height) \o TxtCm ELSE <<>>)

Description(tide_type, height, lunar_day, station_name) ==
    TxtStation \o station_name \o NL
        \o TxtType \o PyStr(tide_type) \o NL
        \o (IF Truthy(height) THEN TxtHeight \o PyStr(height) \o TxtHeightUnit \o NL
            ELSE <<>>)
        \o (IF Truthy(lunar_day) THEN TxtLunar \o PyStr(lunar_day) ELSE <<>>)

\* the VEVENT with a UID made from the time of generation
EventBlockStampedUid(event_data, station_name, stamp) ==
    [summary |-> Summary(event_data.type, event_data.height, station_name),
     dtstart |-> event_data.datetime,
     dtend |-> PlusSeconds(event_data.datetime, 30 * Minute),
     description |-> Description(event_data.type, event_data.height,
                                 event_data.lunar_day, station_name),
     uid |-> Uid(NowAt(stamp), event_data.type, station_name),
     dtstamp |-> NowAt(stamp)]

\* the VEVENT built for one event; stamp is the clock reading of dtstamp
EventBlock(event_data, station_name, stamp) ==
    [summary |-> Summary(event_data.type, event_data.height, station_name),
     dtstart |-> event_data.datetime,
     dtend |-> PlusSeconds(event_data.datetime, 30 * Minute),
     description |-> Description(event_data.type, event_data.height,
                                 event_data.lunar_day, station_name),
     uid |-> Uid(event_data.datetime, event_data.type, station_name),
     dtstamp |-> NowAt(stamp)]

\* the blocks the loop adds for events[i..]
RECURSIVE Blocks(_, _, _, _, _, _)
Blocks(events, station_name, now, days_ahead, stamp, lib) ==
    IF events = <<>> THEN <<>>
    ELSE (IF InWindow(Head(events).datetime, now, days_ahead, lib)
          THEN <<EventBlock(Head(events), station_name, stamp)>>
          ELSE <<>>)
         \o Blocks(Tail(events), station_name, now, days_ahead, stamp, lib)

\* create_ical with the time of generation in the header's product identifier
CreateIcalDatedHeader(events, days_ahead, station_name, t, lib) ==
    IF \E i \in 1..Len(events) : ~events[i].datetime.aware
    THEN [exc |-> "TypeError", cal |-> <<>>]
    ELSE [exc |-> "none",
          cal |-> <<[prodid |-> TxtProdPre \o station_name \o TxtProdPost
                                   \o Strftime(NowAt(t)),
                     version |-> <<"2", ".", "0">>,
                     calscale |-> "GREGORIAN",
                     method |-> "PUBLISH",
                     calname |-> TxtCalPre \o station_name \o TxtCalPost,
                     timezone |-> TxtTimezone,
                     vevents |-> Blocks(events, station_name, NowAt(t), days_ahead,
                                        t, lib)]>>]

\* blocks with the repetitions of an earlier block (same start and summary)
\* taken out
Deduplicated(blocks) ==
    LET Repeats(i) == \E j \in 1..(i - 1) : /\ blocks[j].dtstart = blocks[i].dtstart
                                             /\ blocks[j].summary = blocks[i].summary
        kept == {i \in 1..Len(blocks) : ~Repeats(i)}
        Nth(n) == CHOOSE i \in kept : Cardinality({j \in kept : j <= i}) = n
    IN [n \in 1..Cardinality(kept) |-> blocks[Nth(n)]]

\* create_ical that adds an event already in the calendar only once
CreateIcalDeduplicated(events, days_ahead, station_name, t, lib) ==
    IF \E i \in 1..Len(events) : ~events[i].datetime.aware
    THEN [exc |-> "TypeError", cal |-> <<>>]
    ELSE [exc |-> "none",
          cal |-> <<[prodid |-> TxtProdPre \o station_name \o TxtProdPost,
                     version |-> <<"2", ".", "0">>,
                     calscale |-> "GREGORIAN",
                     method |-> "PUBLISH",
                     calname |-> TxtCalPre \o station_name \o TxtCalPost,
                     timezone |-> TxtTimezone,
                     vevents |-> Deduplicated(Blocks(events, station_name, NowAt(t),
                                                     days_ahead, t, lib))]>>]

\* create_ical(events, days_ahead) run at clock reading t: [exc, cal].  The
\* clock is read once for now and once for each block's dtstamp; a run is
\* shorter than the clock's step, so every reading of it is t.
\* Ordering an aware datetime with a naive one raises TypeError.
CreateIcal(events, days_ahead, station_name, t, lib) ==
    IF \E i \in 1..Len(events) : ~events[i].datetime.aware
    THEN [exc |-> "TypeError", cal |-> <<>>]
    ELSE [exc |-> "none",
          cal |-> <<[prodid |-> TxtProdPre \o station_name \o TxtProdPost,
                     version |-> <<"2", ".", "0">>,
                     calscale |-> "GREGORIAN",
                     method |-> "PUBLISH",
                     calname |-> TxtCalPre \o station_name \o TxtCalPost,
                     timezone |-> TxtTimezone,
                     vevents |-> Blocks(events, station_name, NowAt(t), days_ahead,
                                        t, lib)]>>]

-----------------------------------------------------------------------------
(* The programs' inputs: station directory, requests, upstream answers      *)

\* how many stations location.json lists
NumStations == 11
\* how many clock readings after T0 a run of create_ical can see
MaxTick == 1

KL == <<"K", "L", "#", "Z", "Z", "&">>
DS == <<"N", "T", "#", "D", "S", "&">>
Unlisted == <<"X", "X">>
StationArgs == {KL, DS, Unlisted}

\* location.json as loaded: LocationName -> LocationId, in file order
Directory ==
    [i \in 1..NumStations |->
        [LocationName |-> IF i = 1 THEN KL ELSE IF i = 2 THEN DS ELSE <<"S">> \o Dec(i),
         LocationId |-> <<"T">> \o Dec(i)]]

\* location.json with the directory in it
LocationJson ==
    JList([i \in 1..NumStations |->
              JObj([LocationName |-> JStr(Directory[i].LocationName),
                    LocationId |-> JStr(Directory[i].LocationId)])])

\* what can be found at a path where location.json is looked for: no file,
\* a file that is not JSON, or a file holding a JSON value
MissingFile == [kind |-> "missing", value |-> JNull]
GarbledFile == [kind |-> "garbled", value |-> JNull]
JsonFile(value) == [kind |-> "json", value |-> value]
GoodFile == JsonFile(LocationJson)
\* a list whose second entry has no LocationId, or no LocationName
NoIdFile ==
    JsonFile(JList(<<LocationJson.a[1], JObj([LocationName |-> JStr(DS)])>>))
NoNameFile ==
    JsonFile(JList(<<LocationJson.a[1], JObj([LocationId |-> JStr(<<"T", "2">>)])>>))
\* JSON of another shape: null, a list of names, one entry outside a list
NullFile == JsonFile(JNull)
NamesFile == JsonFile(JList(<<JStr(KL), JStr(DS)>>))
EntryFile == JsonFile(LocationJson.a[1])
EmptyListFile == JsonFile(EmptyList)

\* the files at the paths _load_tide_stations tries, in order:
\* tide_calendar.py tries one path, api/index.py three
LocationPaths(prog) ==
    IF prog = "api"
    THEN {<<GoodFile, MissingFile, MissingFile>>,
          <<MissingFile, MissingFile, GoodFile>>,
          <<MissingFile, GarbledFile, NoIdFile>>,
          <<MissingFile, MissingFile, MissingFile>>,
          <<GarbledFile, NullFile, GoodFile>>,
          <<NoNameFile, GoodFile, NullFile>>}
    ELSE {<<GoodFile>>, <<MissingFile>>, <<GarbledFile>>, <<NoIdFile>>,
          <<NoNameFile>>, <<NullFile>>, <<NamesFile>>, <<EntryFile>>,
          <<EmptyListFile>>}

\* ?days= of the query string (--days of the command line): absent or a number
DaysArgs == {<<>>, <<3>>, <<14>>, <<45>>}

\* 2025-12-29T00:00:00+08:00, in seconds since the epoch in UTC
T0 == DaysFromCivil(2025, 12, 29) * Day - TaipeiOffset
Times == {T0 + k * Hour : k \in 0..MaxTick}

\* the reading of T0 + s seconds written with offset +08:00, or bare
At(s) == DT(T0 + s + TaipeiOffset, TRUE, TaipeiOffset)
Bare(s) == DT(T0 + s + TaipeiOffset, FALSE, 0)

TxtTrue == <<"t", "r", "u", "e">>
TxtFalse == <<"f", "a", "l", "s", "e">>

Heights(local, twvd, chart) ==
    JObj([AboveLocalMSL |-> local, AboveTWVD |-> twvd, AboveChartDatum |-> chart])
NoHeights == Heights(EmptyStr, EmptyStr, EmptyStr)
Row(kind, text, heights) ==
    JObj([Tide |-> JStr(kind), DateTime |-> JStr(text), TideHeights |-> heights])
DailyOf(lunar, rows) == JObj([LunarDate |-> JStr(lunar), Time |-> JList(rows)])
LocationOf(name, dailies) ==
    JObj([Location |-> JObj([LocationName |-> JStr(name),
                             TimePeriods |-> JObj([Daily |-> JList(dailies)])])])
Envelope(records) == JObj([success |-> JStr(TxtTrue), records |-> records])
Forecasts(blocks) == Envelope(JObj([TideForecasts |-> JList(blocks)]))

Lunar1 == <<"1", "1", "/", "1", "0">>

\* the day of section 8's scenario: high tide 05:01 at 120, low tide 11:30
ScenarioDay ==
    DailyOf(Lunar1,
            <<Row(HighTide, IsoText(At(5 * Hour + Minute)),
                  Heights(JStr(Dec(120)), EmptyStr, EmptyStr)),
              Row(LowTide, IsoText(At(11 * Hour + 30 * Minute)), NoHeights)>>)

\* the same extrema under another lunar label and another height
ScenarioDayAgain ==
    DailyOf(<<"1", "1", "/", "1", "1">>,
            <<Row(HighTide, IsoText(At(5 * Hour + Minute)),
                  Heights(EmptyStr, JStr(Dec(135)), EmptyStr)),
              Row(LowTide, IsoText(At(11 * Hour + 30 * Minute)), NoHeights)>>)

\* rows on and around the edges of the windows of 7 and 30 days from T0,
\* a pair one second and a pair one offset apart, and a repeated row
EdgeDay ==
    DailyOf(Lunar1,
            <<Row(LowTide, IsoText(At(-Day - 1)), NoHeights),
              Row(HighTide, IsoText(At(-Day)), NoHeights),
              Row(LowTide, IsoText(At(-Hour)), NoHeights),
              Row(HighTide, IsoText(At(0)), NoHeights),
              Row(HighTide, IsoText(At(5 * Hour + Minute)), NoHeights),
              Row(HighTide, IsoText(At(5 * Hour + Minute + 30)), NoHeights),
              Row(HighTide, IsoText(DT(At(5 * Hour + Minute).wall, TRUE, 9 * Hour)),
                  NoHeights),
              Row(LowTide, IsoText(At(11 * Hour)), NoHeights),
              Row(LowTide, IsoText(At(11 * Hour)), NoHeights),
              Row(LowTide, IsoText(At(7 * Day)), NoHeights),
              Row(HighTide, IsoText(At(7 * Day + 1)), NoHeights),
              Row(LowTide, IsoText(At(30 * Day)), NoHeights),
              Row(HighTide, IsoText(At(30 * Day + 1)), NoHeights)>>)

\* rows that an hour's difference of now moves into or out of the window
ShiftDay ==
    DailyOf(Lunar1,
            <<Row(HighTide, IsoText(At(-Day)), NoHeights),
              Row(LowTide, IsoText(At(0)), NoHeights),
              Row(HighTide, IsoText(At(7 * Day + 1)), NoHeights)>>)

\* one row for each way the three datums can be given or left empty
HeightDay ==
    LET l == JStr(Dec(100))
        w == JStr(Dec(120))
        c == JStr(Dec(150))
        e == EmptyStr
        at(i) == IsoText(At(i * Hour))
    IN DailyOf(Lunar1,
               <<Row(HighTide, at(1), Heights(l, w, c)),
                 Row(LowTide, at(2), Heights(l, w, e)),
                 Row(HighTide, at(3), Heights(l, e, c)),
                 Row(LowTide, at(4), Heights(l, e, e)),
                 Row(HighTide, at(5), Heights(e, w, c)),
                 Row(LowTide, at(6), Heights(e, w, e)),
                 Row(HighTide, at(7), Heights(e, e, c)),
                 Row(LowTide, at(8), Heights(e, e, e)),
                 Row(HighTide, at(9), Heights(JNum(0), JNum(12), JNum(95))),
                 Row(LowTide, at(10), JObj([AboveTWVD |-> JNum(-7)]))>>)

\* rows whose DateTime is unparseable, empty, absent or bare among good ones
BadTimeDay ==
    DailyOf(<<>>,
            <<Row(HighTide, IsoText(At(Hour)), NoHeights),
              Row(LowTide, <<"2", "0", "2", "5", "-", "1", "2", "-", "2", "9", " ", "n", "o", "o", "n">>, NoHeights),
              Row(LowTide, <<"2", "0", "2", "5", "-", "1", "3", "-", "0", "1", "T", "0", "7", ":", "0", "0", ":", "0", "0", "+", "0", "8", ":", "0", "0">>, NoHeights),
              Row(HighTide, <<>>, NoHeights),
              JObj([Tide |-> JStr(LowTide)]),
              Row(LowTide, IsoText(At(13 * Hour)), NoHeights)>>)
BareTimeDay ==
    DailyOf(<<>>,
            <<Row(HighTide, IsoText(At(Hour)), NoHeights),
              Row(LowTide, IsoText(Bare(7 * Hour)), NoHeights)>>)

\* the bodies the upstream endpoint can answer with
Payloads ==
    << \* 1: a flat list over two stations (section 8's scenario)
       Forecasts(<<LocationOf(KL, <<ScenarioDay>>), LocationOf(DS, <<ScenarioDay>>)>>),
       \* 2: the same with the stations in the other order
       Forecasts(<<LocationOf(DS, <<ScenarioDay>>), LocationOf(KL, <<EdgeDay>>)>>),
       \* 3: already restricted to one station
       Forecasts(<<LocationOf(KL, <<EdgeDay>>)>>),
       \* 4: all the datum combinations, and one day given twice
       Forecasts(<<LocationOf(KL, <<HeightDay, ScenarioDay, ScenarioDayAgain>>)>>),
       \* 5: restricted to one station, the block without a LocationName
       Forecasts(<<JObj([Location |-> JObj([TimePeriods |->
                            JObj([Daily |-> JList(<<ScenarioDay>>)])])])>>),
       \* 6: restricted to one station, under another spelling of its name
       Forecasts(<<LocationOf(ShortName(KL), <<ScenarioDay>>)>>),
       \* 7: the list under the singular key
       Envelope(JObj([TideForecast |-> JList(<<LocationOf(KL, <<ScenarioDay>>)>>)])),
       \* 8: bad and bare timestamps
       Forecasts(<<LocationOf(KL, <<BadTimeDay>>)>>),
       Forecasts(<<LocationOf(KL, <<BareTimeDay>>)>>),
       \* 10: neither list key; no records; the event list under another key
       Envelope(JObj([Forecast |-> JList(<<LocationOf(KL, <<ScenarioDay>>)>>)])),
       JObj([success |-> JStr(TxtTrue)]),
       Forecasts(<<JObj([Location |-> JObj([LocationName |-> JStr(KL),
                            TimePeriods |-> JObj([Daily |-> JList(<<
                                JObj([LunarDate |-> JStr(Lunar1),
                                      TideData |-> JList(<<>>)])>>)])])])>>),
       \* 13: nested values that are null or of another type
       Envelope(JNull),
       Envelope(JObj([TideForecasts |-> JNull])),
       Envelope(JObj([TideForecasts |-> JObj([Location |-> EmptyObj])])),
       Forecasts(<<JObj([Location |-> JObj([LocationName |-> JStr(KL),
                                            TimePeriods |-> JNull])])>>),
       Forecasts(<<LocationOf(KL, <<DailyOf(Lunar1,
                      <<JObj([Tide |-> JStr(HighTide),
                              DateTime |-> JStr(IsoText(At(Hour))),
                              TideHeights |-> JNull])>>)>>)>>),
       Forecasts(<<LocationOf(KL, <<DailyOf(Lunar1,
                      <<JObj([Tide |-> JStr(HighTide), DateTime |-> JNum(20251229),
                              TideHeights |-> NoHeights])>>)>>)>>),
       \* 19: the envelope says no, or says nothing
       JObj([success |-> JStr(TxtFalse), records |-> EmptyObj]),
       JObj([records |-> JObj([TideForecasts |->
                                 JList(<<LocationOf(KL, <<ScenarioDay>>)>>)])]),
       \* 21: one station, rows near the window's edges and one day given twice
       Forecasts(<<LocationOf(KL, <<ShiftDay, ScenarioDay, ScenarioDayAgain>>)>>) >>

-----------------------------------------------------------------------------
(* State                                                                    *)

\* the handler threads (processes, for the command line) that can run
Reqs == {"a", "b"}

VARIABLES
    program,        \* which program this is: "server", "api" or "cli"
    TIDE_STATIONS,  \* the module-level station directory, in key order
    API_KEY,        \* whether CWA_API_KEY is set to a non-empty string
    upstream,       \* which of Payloads the upstream endpoint answers with
    workers,        \* the threads that take requests
    location_json,  \* the files at the paths the directory is loaded from
    kv,             \* the counter store: "none" (kv is None), "up" or "flaky"
    counters,       \* the counters in the store, by key
    req             \* per request: where it is and what it has produced

vars == <<program, TIDE_STATIONS, location_json, API_KEY, upstream, workers, kv,
          counters, req>>

NoResponse ==
    [status |-> 0, mimetype |-> "none", error |-> "none", available |-> <<>>,
     body |-> <<>>]
IdleReq ==
    [pc |-> "idle", station |-> <<>>, arg |-> <<>>, days |-> 0, calls |-> {},
     fetch |-> "none",
     events |-> <<>>, now |-> 0, resp |-> NoResponse]

\* loc[k] of the dict comprehension: KeyError without the key, TypeError on
\* anything that is no dict
Subscript(loc, k) ==
    IF loc.t = "obj" THEN (IF k \in DOMAIN loc.m THEN loc.m[k] ELSE Raise("KeyError"))
    ELSE Raise("TypeError")

\* d[name] = id on a dict kept in key order: a name already there keeps its
\* place and takes the new id
DictSet(d, name, id) ==
    IF \E i \in 1..Len(d) : d[i].LocationName = name
    THEN [i \in 1..Len(d) |->
             IF d[i].LocationName = name THEN [d[i] EXCEPT !.LocationId = id] ELSE d[i]]
    ELSE Append(d, [LocationName |-> name, LocationId |-> id])

\* {loc["LocationName"]: loc["LocationId"] for loc in locations} from entry
\* i on, d the dict so far: [exc, stations].  The names and ids of the
\* model's files are strings.
RECURSIVE DictFrom(_, _, _)
DictFrom(locs, i, d) ==
    IF i > Len(locs) THEN [exc |-> "none", stations |-> d]
    ELSE IF IsRaise(Subscript(locs[i], "LocationName"))
    THEN [exc |-> Subscript(locs[i], "LocationName").exc, stations |-> <<>>]
    ELSE IF IsRaise(Subscript(locs[i], "LocationId"))
    THEN [exc |-> Subscript(locs[i], "LocationId").exc, stations |-> <<>>]
    ELSE DictFrom(locs, i + 1,
                  DictSet(d, Subscript(locs[i], "LocationName").s,
                          Subscript(locs[i], "LocationId").s))

\* the body of the try for one path: open, json.load, the comprehension
LoadFile(file) ==
    IF file.kind = "missing" THEN [exc |-> "FileNotFoundError", stations |-> <<>>]
    ELSE IF file.kind = "garbled" THEN [exc |-> "JSONDecodeError", stations |-> <<>>]
    ELSE IF IsRaise(Iter(file.value)) THEN [exc |-> Iter(file.value).exc, stations |-> <<>>]
    ELSE DictFrom(Iter(file.value).a, 1, <<>>)

\* the exceptions the loader catches
Caught == {"FileNotFoundError", "JSONDecodeError", "KeyError"}

\* _load_tide_stations over the paths it tries: the first file that loads
\* gives the directory, a caught exception moves on to the next path (the
\* empty dict after the last), any other exception leaves the function
RECURSIVE LoadTideStations(_)
LoadTideStations(paths) ==
    IF paths = <<>> THEN [exc |-> "none", stations |-> <<>>]
    ELSE IF LoadFile(Head(paths)).exc \in Caught THEN LoadTideStations(Tail(paths))
    ELSE LoadFile(Head(paths))

\* list(TIDE_STATIONS.keys())
Keys(stations) == [i \in 1..Len(stations) |-> stations[i].LocationName]
Known(station, stations) == \E i \in 1..Len(stations) : stations[i].LocationName = station

\* the first n items of a list: list(...)[:n]
Take(a, n) == SubSeq(a, 1, IF Len(a) < n THEN Len(a) ELSE n)

\* how many names the ValueError of the constructor lists
SampleSize == 10

\* the constructor with the message listing every name
GeneratorInitAllNames(station_name, stations) ==
    IF ~Known(station_name, stations)
    THEN [exc |-> "ValueError", available |-> Keys(stations)]
    ELSE [exc |-> "none", available |-> <<>>]

\* TideCalendarGenerator.__init__: the exception it raises, with the names
\* its message lists, or "none"
GeneratorInit(station_name, stations) ==
    IF ~Known(station_name, stations)
    THEN [exc |-> "ValueError", available |-> Take(Keys(stations), SampleSize)]
    ELSE [exc |-> "none", available |-> <<>>]

\* request.args.get("days", 30, type=int); min(max(days, 7), 30)
DaysOrDefault(arg) == IF arg = <<>> THEN 30 ELSE arg[1]
Clamp(days) ==
    LET lo == IF days > 7 THEN days ELSE 7
    IN IF lo < 30 THEN lo ELSE 30

\* fetch_tide_data without the check of the envelope's success flag
FetchTideDataUnchecked(answer) ==
    IF answer.transport # "ok" THEN Raise("ConnectionError")
    ELSE IF answer.status >= 400 THEN Raise("HTTPError")
    ELSE answer.body

\* fetch_tide_data on the upstream's answer: the payload, or the exception
FetchTideData(answer) ==
    IF answer.transport # "ok" THEN Raise("ConnectionError")
    ELSE IF answer.status >= 400 THEN Raise("HTTPError")
    ELSE IF Get(answer.body, "success", JNull) # JStr(TxtTrue)
         THEN (IF IsRaise(Get(answer.body, "success", JNull))
               THEN Raise("AttributeError") ELSE Raise("Exception"))
    ELSE answer.body

\* what a request keeps of the answer it got: how the GET ended
Outcome(answer) ==
    IF answer.transport # "ok" THEN answer.transport
    ELSE IF answer.status >= 400 THEN "http_error"
    ELSE "http_ok"

\* what the upstream can do with one GET
AnswersWith(body) ==
    {[transport |-> "timeout", status |-> 0, body |-> JNull],
     [transport |-> "ok", status |-> 503, body |-> body],
     [transport |-> "ok", status |-> 200, body |-> body]}
Answers(i) == AnswersWith(Payloads[i])

\* generate() from create_ical on: what the run leaves behind
AfterCreate(events, made, t) ==
    [exc |-> made.exc,
     calls |-> {"fetch_tide_data", "parse_tide_events", "create_ical"},
     events |-> events, now |-> t, cal |-> made.cal]

\* generate() from parse_tide_events on, parsed its outcome
AfterParse(parsed, station_name, days_ahead, t, lib) ==
    IF parsed.exc # "none"
    THEN [exc |-> parsed.exc, calls |-> {"fetch_tide_data", "parse_tide_events"},
          events |-> <<>>, now |-> 0, cal |-> <<>>]
    ELSE AfterCreate(parsed.events,
                     CreateIcal(parsed.events, days_ahead, station_name, t, lib), t)

\* generate() from fetch_tide_data on, data its outcome
AfterFetch(data, station_name, days_ahead, t, lib) ==
    IF IsRaise(data)
    THEN [exc |-> data.exc, calls |-> {"fetch_tide_data"}, events |-> <<>>,
          now |-> 0, cal |-> <<>>]
    ELSE AfterParse(ParseTideEvents(data, station_name, lib),
                    station_name, days_ahead, t, lib)

\* fetch_tide_data, parse_tide_events, create_ical in a row, as the handlers
\* and generate() call them; the first exception ends the row
Generate(answer, station_name, days_ahead, t, lib) ==
    AfterFetch(FetchTideData(answer), station_name, days_ahead, t, lib)

JsonError(status, error, available) ==
    [status |-> status, mimetype |-> "application/json", error |-> error,
     available |-> available, body |-> <<>>]
CalendarResponse(cal) ==
    [status |-> 200, mimetype |-> "text/calendar", error |-> "none",
     available |-> <<>>, body |-> cal]
\* the command line: the exit status, the error it logs, the file it writes
Exit(status, error, available, file) ==
    [status |-> status, mimetype |-> "none", error |-> error,
     available |-> available, body |-> file]

\* the keys of the counters: "stats:total" and "stats:station:<name>"
TotalKey == <<"t", "o", "t", "a", "l">>
CounterKeys == {TotalKey} \cup {Directory[i].LocationName : i \in 1..2}

\* increment_counter(key): the counters after it.  Without a store nothing
\* is counted; an increment the store refuses is logged and dropped.
IncrementCounter(key, accepted) ==
    IF kv = "none" \/ ~accepted THEN counters
    ELSE [counters EXCEPT ![key] = @ + 1]
\* whether the store can accept or refuse an increment
Acceptances == IF kv = "flaky" THEN BOOLEAN ELSE {TRUE}

TypeOK ==
    /\ program \in {"server", "api", "cli"}
    /\ API_KEY \in BOOLEAN
    /\ upstream \in 1..Len(Payloads)
    /\ kv \in {"none", "up", "flaky"}
    /\ \A k \in CounterKeys : counters[k] \in 0..Cardinality(Reqs)
    /\ \A r \in Reqs :
          req[r].pc \in {"idle", "fetching", "count_total", "count_station", "done"}

\* the module was imported: TIDE_STATIONS = _load_tide_stations() returned
Imported == LoadTideStations(location_json).exc = "none"

\* the programs as started: the directory loaded (empty, when loading
\* failed; never bound, when the loader raised and the import with it), the
\* key read from the environment, no request yet
Started ==
    /\ program \in {"server", "api", "cli"}
    /\ location_json \in LocationPaths(program)
    /\ TIDE_STATIONS = LoadTideStations(location_json).stations
    /\ API_KEY \in BOOLEAN
    /\ req = [r \in Reqs |-> IdleReq]
    /\ counters = [k \in CounterKeys |-> 0]

\* one request, against every payload; the store, where there is one, may
\* refuse any increment
Init ==
    /\ Started
    /\ workers = {"a"}
    /\ upstream \in 1..Len(Payloads)
    /\ kv \in IF program = "api" THEN {"none", "up", "flaky"} ELSE {"none"}

\* the payloads two requests are run against side by side
PairPayloads == {1, 21}

\* two requests, interleaved; location.json is at the first path or nowhere
InitPair ==
    /\ Started
    /\ location_json[1] \in {GoodFile, MissingFile}
    /\ \A i \in 2..Len(location_json) : location_json[i] = MissingFile
    /\ workers = Reqs
    /\ upstream \in PairPayloads
    /\ kv \in IF program = "api" THEN {"none", "up"} ELSE {"none"}

-----------------------------------------------------------------------------
(* The handlers                                                             *)

\* the threads are alike: "b" names the one that starts second
MayStart(r) == Imported /\ r \in workers /\ (r = "a" \/ req["a"].pc # "idle")

\* tide_calendar(station) of a web app up to the upstream GET: the API key
\* check, the directory check, the clamp and the generator's constructor
HandlerStart(r, station, arg) ==
    LET days == Clamp(DaysOrDefault(arg))
        gen == GeneratorInit(station, TIDE_STATIONS)
    IN req' = [req EXCEPT ![r] =
         IF ~API_KEY
         THEN [@ EXCEPT !.pc = "done", !.station = station,
                        !.resp = JsonError(500, "API key not configured", <<>>)]
         ELSE IF ~Known(station, TIDE_STATIONS)
         THEN [@ EXCEPT !.pc = "done", !.station = station,
                        !.resp = JsonError(404, "Unknown station", Keys(TIDE_STATIONS))]
         ELSE IF gen.exc # "none"
         THEN [@ EXCEPT !.pc = "done", !.station = station, !.arg = arg,
                        !.days = days,
                        !.resp = JsonError(500, gen.exc, gen.available)]
         ELSE [@ EXCEPT !.pc = "fetching", !.station = station, !.arg = arg,
                        !.days = days]]

\* the rest of a handler that keeps the last calendar made and answers with
\* it when there is one
HandlerFinishCached(r, g, fetch, pc) ==
    req' = [req EXCEPT ![r] =
         [@ EXCEPT !.pc = IF g.exc # "none" THEN "done" ELSE pc,
                   !.fetch = fetch, !.calls = g.calls,
                   !.events = g.events, !.now = g.now,
                   !.resp = IF g.exc # "none" THEN JsonError(500, g.exc, <<>>)
                            ELSE IF \E o \in Reqs \ {r} : req[o].resp.body # <<>>
                            THEN CalendarResponse(
                                     req[CHOOSE o \in Reqs \ {r} :
                                             req[o].resp.body # <<>>].resp.body)
                            ELSE CalendarResponse(g.cal)]]

\* the rest of the handler, from the upstream's answer to the response
\* g is what the generator's run left behind, fetch how its GET ended and
\* pc where the handler goes next
HandlerFinish(r, g, fetch, pc) ==
    req' = [req EXCEPT ![r] =
         [@ EXCEPT !.pc = IF g.exc # "none" THEN "done" ELSE pc,
                   !.fetch = fetch, !.calls = g.calls,
                   !.events = g.events, !.now = g.now,
                   !.resp = IF g.exc # "none" THEN JsonError(500, g.exc, <<>>)
                            ELSE CalendarResponse(g.cal)]]

\* server.py: GET /tide/<station>.ics arrives
ServerTideCalendar(r) ==
    /\ program = "server"
    /\ req[r].pc = "idle"
    /\ MayStart(r)
    /\ \E station \in StationArgs, arg \in DaysArgs : HandlerStart(r, station, arg)
    /\ UNCHANGED <<program, TIDE_STATIONS, location_json, API_KEY, upstream, workers, kv,
                 counters>>

\* server.py: the upstream answers and the handler returns
ServerRespond(r) ==
    /\ program = "server"
    /\ req[r].pc = "fetching"
    /\ \E answer \in Answers(upstream), t \in Times :
          HandlerFinish(r, Generate(answer, req[r].station, req[r].days, t,
                                    LibOf(program)),
                        Outcome(answer), "done")
    /\ UNCHANGED <<program, TIDE_STATIONS, location_json, API_KEY, upstream, workers, kv,
                 counters>>

\* api/index.py: GET /tide/<station>.ics arrives; the name is unquoted
ApiTideCalendar(r) ==
    /\ program = "api"
    /\ req[r].pc = "idle"
    /\ MayStart(r)
    /\ \E station \in StationArgs, arg \in DaysArgs :
          HandlerStart(r, Unquote(station), arg)
    /\ UNCHANGED <<program, TIDE_STATIONS, location_json, API_KEY, upstream, workers, kv,
                 counters>>

\* api/index.py with the total counted as soon as the upstream answered,
\* whatever became of the calendar
ApiRespondCountFirst(r) ==
    /\ program = "api"
    /\ req[r].pc = "fetching"
    /\ \E answer \in Answers(upstream), t \in Times :
          HandlerFinish(r, Generate(answer, req[r].station, req[r].days, t,
                                    LibOf(program)),
                        Outcome(answer),
                        IF kv = "none" THEN "done" ELSE "count_station")
    /\ counters' = IncrementCounter(TotalKey, TRUE)
    /\ UNCHANGED <<program, TIDE_STATIONS, location_json, API_KEY, upstream, workers, kv>>

\* api/index.py: the upstream answers and generate_ical_bytes returns or
\* raises; without a store both increment_counter calls return at once and
\* the handler returns, with one the handler goes on to the store
ApiRespond(r) ==
    /\ program = "api"
    /\ req[r].pc = "fetching"
    /\ \E answer \in Answers(upstream), t \in Times :
          HandlerFinish(r, Generate(answer, req[r].station, req[r].days, t,
                                    LibOf(program)),
                        Outcome(answer),
                        IF kv = "none" THEN "done" ELSE "count_total")
    /\ UNCHANGED <<program, TIDE_STATIONS, location_json, API_KEY, upstream, workers, kv,
                 counters>>

\* api/index.py: increment_counter("stats:total")
ApiCountTotal(r) ==
    /\ program = "api"
    /\ req[r].pc = "count_total"
    /\ \E accepted \in Acceptances : counters' = IncrementCounter(TotalKey, accepted)
    /\ req' = [req EXCEPT ![r].pc = "count_station"]
    /\ UNCHANGED <<program, TIDE_STATIONS, location_json, API_KEY, upstream, workers, kv>>

\* api/index.py: increment_counter(f"stats:station:{station}"), and the
\* calendar is returned
ApiCountStation(r) ==
    /\ program = "api"
    /\ req[r].pc = "count_station"
    /\ \E accepted \in Acceptances :
          counters' = IncrementCounter(req[r].station, accepted)
    /\ req' = [req EXCEPT ![r].pc = "done"]
    /\ UNCHANGED <<program, TIDE_STATIONS, location_json, API_KEY, upstream, workers, kv>>

\* tide_calendar.py main(): the arguments are read, the key is checked and
\* the generator is constructed; --days is passed on as given
CliMain(r) ==
    /\ program = "cli"
    /\ req[r].pc = "idle"
    /\ MayStart(r)
    /\ \E station \in StationArgs, arg \in DaysArgs :
         LET days == DaysOrDefault(arg)
             gen == GeneratorInit(station, TIDE_STATIONS)
         IN req' = [req EXCEPT ![r] =
              IF ~API_KEY
              THEN [@ EXCEPT !.pc = "done", !.station = station,
                             !.resp = Exit(1, "API key not configured", <<>>, <<>>)]
              ELSE IF gen.exc # "none"
              THEN [@ EXCEPT !.pc = "done", !.station = station, !.arg = arg,
                             !.days = days,
                             !.resp = Exit(1, gen.exc, gen.available, <<>>)]
              ELSE [@ EXCEPT !.pc = "fetching", !.station = station, !.arg = arg,
                             !.days = days]]
    /\ UNCHANGED <<program, TIDE_STATIONS, location_json, API_KEY, upstream, workers, kv,
                 counters>>

\* the rest of main(): the file is written and the process ends 0, or the
\* exception is printed and it ends 1
MainFinish(r, g, fetch) ==
    req' = [req EXCEPT ![r] =
         [@ EXCEPT !.pc = "done", !.fetch = fetch, !.calls = g.calls,
                   !.events = g.events, !.now = g.now,
                   !.resp = IF g.exc # "none" THEN Exit(1, g.exc, <<>>, <<>>)
                            ELSE Exit(0, "none", <<>>, g.cal)]]

\* tide_calendar.py generate(): the upstream answers, the file is written
CliGenerate(r) ==
    /\ program = "cli"
    /\ req[r].pc = "fetching"
    /\ \E answer \in Answers(upstream), t \in Times :
          MainFinish(r, Generate(answer, req[r].station, req[r].days, t,
                                 LibOf(program)),
                     Outcome(answer))
    /\ UNCHANGED <<program, TIDE_STATIONS, location_json, API_KEY, upstream, workers, kv,
                 counters>>

Next ==
    \E r \in Reqs :
        \/ ServerTideCalendar(r)
        \/ ServerRespond(r)
        \/ ApiTideCalendar(r)
        \/ ApiRespond(r)
        \/ ApiCountTotal(r)
        \/ ApiCountStation(r)
        \/ CliMain(r)
        \/ CliGenerate(r)

Spec == Init /\ [][Next]_vars
SpecPair == InitPair /\ [][Next]_vars

-----------------------------------------------------------------------------
(* What the requests show                                                   *)

Done(r) == req[r].pc = "done"
Parsed(r) == "create_ical" \in req[r].calls
HasCal(r) == req[r].resp.body # <<>>
VEvents(r) == req[r].resp.body[1].vevents
Lib == LibOf(program)

\* a block for event e is in the calendar of r
Emitted(r, e) == \E i \in 1..Len(VEvents(r)) : VEvents(r)[i].dtstart = e.datetime

\* the window of section 4.4 for the run of create_ical in r
WindowLo(r) == req[r].now - Day
WindowHi(r) == req[r].now + req[r].days * Day
InSpecWindow(r, dt) == WindowLo(r) <= Instant(dt) /\ Instant(dt) <= WindowHi(r)

\* C1: for daysAhead in [7,30], every emitted block's timestamp t satisfies
\* now - 1 day <= t <= now + daysAhead days, and every input event whose
\* timestamp satisfies it is emitted.
C1_EmittedExactlyWindow ==
    \A r \in Reqs :
        (HasCal(r) /\ req[r].days \in 7..30) =>
            /\ \A i \in 1..Len(VEvents(r)) : InSpecWindow(r, VEvents(r)[i].dtstart)
            /\ \A j \in 1..Len(req[r].events) :
                  InSpecWindow(r, req[r].events[j].datetime)
                     => Emitted(r, req[r].events[j])

\* C2: an event exactly at now - 1 day is emitted, one at now - 1 day - 1
\* second is not, and one exactly at now + daysAhead days is emitted.
C2_BoundaryInclusive ==
    \A r \in Reqs :
        (HasCal(r) /\ req[r].days \in 7..30) =>
            \A j \in 1..Len(req[r].events) :
                LET e == req[r].events[j]
                IN /\ Instant(e.datetime) = WindowLo(r) => Emitted(r, e)
                   /\ Instant(e.datetime) = WindowLo(r) - 1 => ~Emitted(r, e)
                   /\ Instant(e.datetime) = WindowHi(r) => Emitted(r, e)

\* the location blocks of a payload whose forecast list is a list of blocks
BlocksOf(p) == Get(Get(p, "records", EmptyObj), "TideForecasts", EmptyList)
NameOf(block) == Get(Get(block, "Location", EmptyObj), "LocationName", EmptyStr)
SeveralStations(p) ==
    /\ BlocksOf(p).t = "list"
    /\ \E i, j \in 1..Len(BlocksOf(p).a) : NameOf(BlocksOf(p).a[i]) # NameOf(BlocksOf(p).a[j])
\* the payload with only the blocks of one station left in its list
RECURSIVE KeepNamed(_, _)
KeepNamed(blocks, name) ==
    IF blocks = <<>> THEN <<>>
    ELSE (IF NameOf(Head(blocks)) = JStr(name) THEN <<Head(blocks)>> ELSE <<>>)
         \o KeepNamed(Tail(blocks), name)
OnlyStation(p, name) == Forecasts(KeepNamed(BlocksOf(p).a, name))

\* C3: from a payload whose list holds blocks of several stations,
\* parse_tide_events returns the events of the requested station's blocks
\* and no event of another block.
C3_OnlyRequestedStation ==
    \A r \in Reqs :
        (Parsed(r) /\ SeveralStations(Payloads[upstream])) =>
            req[r].events =
                ParseTideEvents(OnlyStation(Payloads[upstream], req[r].station),
                                req[r].station, Lib).events

\* the payload holds one block, of days that each list their rows
DailiesOf(block) ==
    Get(Get(Get(block, "Location", EmptyObj), "TimePeriods", EmptyObj), "Daily", EmptyList)
OneBlock(p) ==
    /\ BlocksOf(p).t = "list" /\ Len(BlocksOf(p).a) = 1
    /\ DailiesOf(BlocksOf(p).a[1]).t = "list"
    /\ \A i \in 1..Len(DailiesOf(BlocksOf(p).a[1]).a) :
          Get(DailiesOf(BlocksOf(p).a[1]).a[i], "Time", EmptyList).t = "list"
\* its rows, in order
RowsOf(p) ==
    LET dailies == DailiesOf(BlocksOf(p).a[1]).a
    IN Flatten([i \in 1..Len(dailies) |-> Get(dailies[i], "Time", EmptyList).a])
\* the first non-empty of the three datums, local mean sea level first
FirstGiven(h) ==
    IF Truthy(h.m.AboveLocalMSL) THEN h.m.AboveLocalMSL
    ELSE IF Truthy(h.m.AboveTWVD) THEN h.m.AboveTWVD
    ELSE h.m.AboveChartDatum
\* r parsed a payload of one block and every row of it gave an event
RowPerEvent(r) ==
    /\ Parsed(r) /\ OneBlock(Payloads[upstream])
    /\ Len(req[r].events) = Len(RowsOf(Payloads[upstream]))

\* C4: the height of an event is the first non-empty of AboveLocalMSL,
\* AboveTWVD, AboveChartDatum, in that order, and is empty only when all
\* three are.
C4_HeightPriority ==
    \A r \in Reqs :
        RowPerEvent(r) =>
            \A i \in 1..Len(req[r].events) :
                LET h == Get(RowsOf(Payloads[upstream])[i], "TideHeights", EmptyObj)
                IN (/\ h.t = "obj"
                    /\ {"AboveLocalMSL", "AboveTWVD", "AboveChartDatum"} \subseteq DOMAIN h.m)
                      => req[r].events[i].height = FirstGiven(h)

\* the events of r that its run of create_ical let through, in order
Selected(r) ==
    LET Through(e) == InWindow(e.datetime, NowAt(req[r].now), req[r].days, Lib)
    IN SelectSeq(req[r].events, Through)
SelectedIdx(r) ==
    {i \in 1..Len(req[r].events) :
        InWindow(req[r].events[i].datetime, NowAt(req[r].now), req[r].days, Lib)}
\* block i of r's calendar was made from the i-th of them
Aligned(r) ==
    /\ Len(VEvents(r)) = Len(Selected(r))
    /\ \A i \in 1..Len(VEvents(r)) : VEvents(r)[i].dtstart = Selected(r)[i].datetime
\* (timestamp, kind label, station name) of block i of r
Triple(r, i) == <<Selected(r)[i].datetime, Selected(r)[i].type, req[r].station>>

\* C5: the UID of a block is a function of (timestamp, kind label, station
\* name) only: blocks of any two runs made from the same triple carry the
\* same UID, whatever now, the height, the lunar label or daysAhead.
C5_UidFromTripleOnly ==
    \A r1, r2 \in Reqs :
        (HasCal(r1) /\ HasCal(r2) /\ Aligned(r1) /\ Aligned(r2)) =>
            \A i \in 1..Len(VEvents(r1)), j \in 1..Len(VEvents(r2)) :
                Triple(r1, i) = Triple(r2, j)
                    => VEvents(r1)[i].uid = VEvents(r2)[j].uid

\* two runs at different times and with different daysAhead made blocks
\* from one triple under different heights and lunar labels
C5_Witness ==
    /\ HasCal("a") /\ HasCal("b") /\ Aligned("a") /\ Aligned("b")
    /\ req["a"].now # req["b"].now
    /\ req["a"].days # req["b"].days
    /\ \E i \in 1..Len(VEvents("a")), j \in 1..Len(VEvents("b")) :
          /\ Triple("a", i) = Triple("b", j)
          /\ Selected("a")[i].height # Selected("b")[j].height
          /\ Selected("a")[i].lunar_day # Selected("b")[j].lunar_day
          /\ VEvents("a")[i].uid = VEvents("b")[j].uid

\* C6: blocks whose (timestamp, kind label, station name) differ carry
\* different UIDs, also when only the seconds or the UTC offset differ.
C6_UidCollisionFree ==
    \A r1, r2 \in Reqs :
        (HasCal(r1) /\ HasCal(r2) /\ Aligned(r1) /\ Aligned(r2)) =>
            \A i \in 1..Len(VEvents(r1)), j \in 1..Len(VEvents(r2)) :
                Triple(r1, i) # Triple(r2, j)
                    => VEvents(r1)[i].uid # VEvents(r2)[j].uid

\* a calendar without the DTSTAMP of its blocks
WithoutDtstamp(cal) ==
    [cal EXCEPT !.vevents =
        [i \in 1..Len(cal.vevents) |->
            [summary |-> cal.vevents[i].summary, dtstart |-> cal.vevents[i].dtstart,
             dtend |-> cal.vevents[i].dtend,
             description |-> cal.vevents[i].description, uid |-> cal.vevents[i].uid]]]
\* two runs of create_ical over the same event list and station label
SameInputs(r1, r2) ==
    /\ HasCal(r1) /\ HasCal(r2)
    /\ req[r1].events = req[r2].events
    /\ req[r1].station = req[r2].station

\* C7 as stated: over the same event list and station label, two runs at
\* different generation times give documents that differ in DTSTAMP only.
C7_SameDocumentExceptDtstamp ==
    \A r1, r2 \in Reqs :
        SameInputs(r1, r2) =>
            WithoutDtstamp(req[r1].resp.body[1]) = WithoutDtstamp(req[r2].resp.body[1])

\* C7 as amended: over the same event list and station label, two runs whose
\* windows let the same input events through give documents that differ in
\* DTSTAMP only.
C7_SameDocumentWhenSameSelection ==
    \A r1, r2 \in Reqs :
        (SameInputs(r1, r2) /\ SelectedIdx(r1) = SelectedIdx(r2)) =>
            WithoutDtstamp(req[r1].resp.body[1]) = WithoutDtstamp(req[r2].resp.body[1])

\* two runs at different times over the same events, the same ones let
\* through, with blocks stamped differently
C7_Witness ==
    /\ SameInputs("a", "b")
    /\ req["a"].now # req["b"].now
    /\ SelectedIdx("a") = SelectedIdx("b")
    /\ VEvents("a") # <<>>
    /\ VEvents("a")[1].dtstamp # VEvents("b")[1].dtstamp

\* C8 as stated: a request or generator construction (with the API key set)
\* for a station that is no key of the directory fails with an unknown-station error listing all
\* the known names, without a fetch and without a calendar.
C8_UnknownStationFullList ==
    \A r \in Reqs :
        (req[r].pc # "idle" /\ API_KEY /\ ~Known(req[r].station, TIDE_STATIONS)) =>
            /\ Done(r)
            /\ req[r].resp.error \in {"Unknown station", "ValueError"}
            /\ req[r].resp.available = Keys(TIDE_STATIONS)
            /\ req[r].calls = {} /\ ~HasCal(r)

\* C8 as amended: with the API key set, a web request for an unlisted
\* station ends 404 with all the known names, and the command line ends 1
\* on the constructor's ValueError, which lists the first ten names only;
\* without the key both end on the missing key before the station is looked
\* at.  In every case nothing is fetched and no calendar is produced.
C8_UnknownStationRejected ==
    \A r \in Reqs :
        (req[r].pc # "idle" /\ ~Known(req[r].station, TIDE_STATIONS)) =>
            /\ Done(r)
            /\ req[r].calls = {} /\ ~HasCal(r)
            /\ IF ~API_KEY
               THEN /\ req[r].resp.error = "API key not configured"
                    /\ req[r].resp.available = <<>>
               ELSE IF program = "cli"
               THEN /\ req[r].resp.status = 1
                    /\ req[r].resp.error = "ValueError"
                    /\ req[r].resp.available = Take(Keys(TIDE_STATIONS), SampleSize)
               ELSE /\ req[r].resp.status = 404
                    /\ req[r].resp.error = "Unknown station"
                    /\ req[r].resp.available = Keys(TIDE_STATIONS)

\* the command line was given an unlisted station and its error names
\* fewer stations than the directory has
C8_Witness ==
    \E r \in Reqs :
        /\ Done(r) /\ API_KEY /\ program = "cli"
        /\ ~Known(req[r].station, TIDE_STATIONS)
        /\ req[r].resp.error = "ValueError"
        /\ Len(req[r].resp.available) < Len(TIDE_STATIONS)

\* the envelope of the payload the upstream answers with does not say "true"
Rejected == Get(Payloads[upstream], "success", JNull) # JStr(TxtTrue)
FetchFailed(r) ==
    \/ req[r].fetch \in {"timeout", "http_error"}
    \/ req[r].fetch = "http_ok" /\ Rejected

\* C9: when the fetch fails (network or timeout error, failing HTTP status,
\* envelope not "true"), the request ends with an error response;
\* parse_tide_events and create_ical are not run and no calendar is returned.
C9_FailedFetchNoCalendar ==
    \A r \in Reqs :
        FetchFailed(r) =>
            /\ Done(r)
            /\ req[r].calls = {"fetch_tide_data"}
            /\ req[r].events = <<>>
            /\ ~HasCal(r)
            /\ req[r].resp.mimetype # "text/calendar"
            /\ req[r].resp.error # "none"
            /\ req[r].resp.status = IF program = "cli" THEN 1 ELSE 500

\* a request ended on an envelope that was answered 200 but rejected
C9_Witness ==
    \E r \in Reqs :
        /\ Done(r) /\ req[r].fetch = "http_ok" /\ Rejected
        /\ req[r].resp.error = "Exception"

\* C10: parse_tide_events never raises: whatever the shape of the payload,
\* it returns (the empty list for an unrecognized shape) and create_ical
\* is run on its result.
C10_ParseNeverRaises ==
    \A r \in Reqs :
        "parse_tide_events" \in req[r].calls => "create_ical" \in req[r].calls

\* parse_tide_events was called for r
ParseCalled(r) == "parse_tide_events" \in req[r].calls
\* the one block of the payload is read for r's station: api/index.py reads
\* every block, tide_calendar.py the blocks under the requested name
BlockRead(r) ==
    Lib = "api_index" \/ NameOf(BlocksOf(Payloads[upstream]).a[1]) = JStr(req[r].station)
\* the row is an object whose kind and heights are as the upstream gives
\* them, whatever its timestamp is
PlainRow(row) ==
    /\ row.t = "obj"
    /\ Get(row, "Tide", EmptyStr).t = "str"
    /\ Get(row, "TideHeights", EmptyObj).t = "obj"
\* the timestamp of the row can be parsed
Parseable(row) ==
    /\ Get(row, "DateTime", EmptyStr).t = "str"
    /\ ~IsRaise(FromIsoFormat(Get(row, "DateTime", EmptyStr).s))
\* the timestamps of the parseable rows, in order
GoodTimes(rows) ==
    LET good == SelectSeq(rows, Parseable)
    IN [i \in 1..Len(good) |-> FromIsoFormat(Get(good[i], "DateTime", EmptyStr).s)]
\* r's payload is one block read for r, of rows that are plain
RowsPlain(r) ==
    /\ ParseCalled(r) /\ OneBlock(Payloads[upstream]) /\ BlockRead(r)
    /\ \A i \in 1..Len(RowsOf(Payloads[upstream])) : PlainRow(RowsOf(Payloads[upstream])[i])

\* C11: a row whose timestamp cannot be parsed is skipped and affects
\* nothing else: parse_tide_events returns (the request is not aborted) and
\* its events are those of the rows with parseable timestamps, in order.
C11_BadRowsSkipped ==
    \A r \in Reqs :
        RowsPlain(r) =>
            /\ Parsed(r)
            /\ [i \in 1..Len(req[r].events) |-> req[r].events[i].datetime]
                  = GoodTimes(RowsOf(Payloads[upstream]))

\* C12: every event parse_tide_events returns carries a timezone-aware
\* timestamp of offset +08:00 (Asia/Taipei), whether its text had an offset
\* or was bare, and the window comparison of create_ical never fails.
C12_TimestampsAwareTaipei ==
    \A r \in Reqs :
        Parsed(r) =>
            /\ \A i \in 1..Len(req[r].events) :
                  /\ req[r].events[i].datetime.aware
                  /\ req[r].events[i].datetime.off = TaipeiOffset
            /\ req[r].resp.error # "TypeError"

\* C13: on every path that reaches create_ical the daysAhead passed in lies
\* in [7,30]: a requested value below 7 becomes 7, one above 30 becomes 30,
\* one inside the range is unchanged and a missing one is 30.
C13_DaysClampedEverywhere ==
    \A r \in Reqs :
        Parsed(r) =>
            /\ req[r].days \in 7..30
            /\ req[r].arg = <<>> => req[r].days = 30
            /\ req[r].arg # <<>> =>
                  /\ req[r].arg[1] < 7 => req[r].days = 7
                  /\ req[r].arg[1] > 30 => req[r].days = 30
                  /\ req[r].arg[1] \in 7..30 => req[r].days = req[r].arg[1]

\* the file is missing, is not valid JSON, or is a list of entries one of
\* which lacks an expected key
LacksKey(value) ==
    /\ value.t = "list"
    /\ \A i \in 1..Len(value.a) : value.a[i].t = "obj"
    /\ \E i \in 1..Len(value.a) :
          ~({"LocationName", "LocationId"} \subseteq DOMAIN value.a[i].m)
FileFails(file) ==
    \/ file.kind \in {"missing", "garbled"}
    \/ file.kind = "json" /\ LacksKey(file.value)
\* r's lookup of its station failed as unknown station, before any fetch
LookupFailed(r) ==
    /\ Done(r) /\ req[r].calls = {} /\ ~HasCal(r)
    /\ req[r].resp.error \in {"Unknown station", "ValueError"}

\* C14: loading the station directory never aborts startup; when the file
\* is missing, is not valid JSON or lacks an expected key the directory is
\* empty and every station lookup from then on fails as unknown station.
C14_LoadNeverAborts ==
    /\ Imported
    /\ (\A i \in 1..Len(location_json) : FileFails(location_json[i])) =>
          /\ TIDE_STATIONS = <<>>
          /\ \A r \in Reqs : (req[r].pc # "idle" /\ API_KEY) => LookupFailed(r)

\* the payload holds one location block, whose rows are well-formed and
\* carry their DateTime as text
OneLocation(r) ==
    /\ ParseCalled(r) /\ OneBlock(Payloads[upstream])
    /\ \A i \in 1..Len(RowsOf(Payloads[upstream])) :
          /\ PlainRow(RowsOf(Payloads[upstream])[i])
          /\ Get(RowsOf(Payloads[upstream])[i], "DateTime", EmptyStr).t = "str"

\* C15: when the payload is restricted to one location, no row is dropped
\* by a re-check of the location name: every row with a parseable
\* timestamp is returned, also when the block's LocationName is absent or
\* differs from the requested station name.
C15_NoNameRecheck ==
    \A r \in Reqs : OneLocation(r) =>
        /\ Parsed(r)
        /\ [i \in 1..Len(req[r].events) |-> req[r].events[i].datetime]
             = GoodTimes(RowsOf(Payloads[upstream]))

\* events i < j of r are the same event, and create_ical let both through
Duplicates(r, i, j) ==
    /\ i < j /\ {i, j} \subseteq SelectedIdx(r)
    /\ req[r].events[i] = req[r].events[j]

\* C16: create_ical emits exactly one event block per input event inside
\* the window, in input order, without sorting, merging or deduplicating:
\* block i is the block of the i-th in-window input event, so duplicate
\* input events give duplicate blocks.
C16_OneBlockPerEventInOrder ==
    \A r \in Reqs : HasCal(r) =>
        /\ Len(VEvents(r)) = Cardinality(SelectedIdx(r))
        /\ \A i \in 1..Len(VEvents(r)) :
              /\ VEvents(r)[i].dtstart = Selected(r)[i].datetime
              /\ VEvents(r)[i].uid = Uid(Selected(r)[i].datetime, Selected(r)[i].type,
                                         req[r].station)
              /\ VEvents(r)[i].summary = Summary(Selected(r)[i].type,
                                                 Selected(r)[i].height, req[r].station)
\* a calendar made from events two of which are the same, one of which is
\* outside the window, and which are not in the order of their times
C16_Witness ==
    \E r \in Reqs :
        /\ HasCal(r)
        /\ \E i, j \in 1..Len(req[r].events) : Duplicates(r, i, j)
        /\ \E i \in 1..Len(req[r].events) : i \notin SelectedIdx(r)
        /\ \E i \in 1..(Len(VEvents(r)) - 1) :
              Instant(VEvents(r)[i].dtstart) > Instant(VEvents(r)[i + 1].dtstart)

\* the response of a request for station with ?days= (--days) arg run alone:
\* the upstream answers with answer and the clock reads t
RunAlone(station, arg, answer, t) ==
    LET cli == program = "cli"
        days == IF cli THEN DaysOrDefault(arg) ELSE Clamp(DaysOrDefault(arg))
        gen == GeneratorInit(station, TIDE_STATIONS)
        g == Generate(answer, station, days, t, Lib)
    IN IF ~API_KEY
       THEN (IF cli THEN Exit(1, "API key not configured", <<>>, <<>>)
             ELSE JsonError(500, "API key not configured", <<>>))
       ELSE IF ~cli /\ ~Known(station, TIDE_STATIONS)
       THEN JsonError(404, "Unknown station", Keys(TIDE_STATIONS))
       ELSE IF gen.exc # "none"
       THEN (IF cli THEN Exit(1, gen.exc, gen.available, <<>>)
             ELSE JsonError(500, gen.exc, gen.available))
       ELSE IF g.exc # "none"
       THEN (IF cli THEN Exit(1, g.exc, <<>>, <<>>) ELSE JsonError(500, g.exc, <<>>))
       ELSE (IF cli THEN Exit(0, "none", <<>>, g.cal) ELSE CalendarResponse(g.cal))
\* the same status and the same calendar, DTSTAMP apart
SameResponse(x, y) ==
    /\ x.status = y.status /\ x.mimetype = y.mimetype
    /\ x.error = y.error /\ x.available = y.available
    /\ Len(x.body) = Len(y.body)
    /\ \A i \in 1..Len(x.body) : WithoutDtstamp(x.body[i]) = WithoutDtstamp(y.body[i])
\* r was answered as it would have been alone
AnsweredAsAlone(r) ==
    \E answer \in Answers(upstream) :
        /\ req[r].fetch \in {"none", Outcome(answer)}
        /\ SameResponse(req[r].resp,
                        RunAlone(req[r].station, req[r].arg, answer, req[r].now))

\* C17: concurrent requests are independent: under any interleaving the
\* response to a request (status and calendar, generation timestamps
\* apart) is the one it would get alone with the same station, days,
\* upstream payload and now, and no handler changes the station directory.
C17_RequestsIndependent ==
    /\ [](\A r \in Reqs : Done(r) => AnsweredAsAlone(r))
    /\ [][TIDE_STATIONS' = TIDE_STATIONS]_vars
\* the second request was answered with a calendar while the first, for
\* another station, is still in its handler
C17_Witness ==
    /\ Done("b") /\ HasCal("b")
    /\ req["a"].pc \in {"fetching", "count_total", "count_station"}
    /\ req["a"].station # req["b"].station

\* the requests whose calendar was generated and that are past the
\* increment of the total (of their station's counter)
PastTotal == {r \in Reqs : req[r].resp.body # <<>>
                            /\ req[r].pc \in {"count_station", "done"}}
PastStation(station) == {r \in Reqs : req[r].resp.body # <<>> /\ req[r].pc = "done"
                                       /\ req[r].station = station}
RECURSIVE SumOf(_)
SumOf(keys) ==
    IF keys = {} THEN 0
    ELSE LET k == CHOOSE k \in keys : TRUE IN counters[k] + SumOf(keys \ {k})
\* r ended on an error: no key, unknown station, failed fetch or parse
Failed(r) == Done(r) /\ req[r].resp.error # "none"

\* C18: in the serverless handler the counters change only after a calendar
\* was generated, the total before the station's counter: with a store
\* that accepts every increment, the total counts the requests with a
\* calendar that are past its increment, each station's counter those that
\* returned, a failed request has changed no counter, and the total is
\* never less than the sum of the stations' counters.
C18_CountersFollowSuccess ==
    (program = "api" /\ kv = "up") =>
        /\ counters[TotalKey] = Cardinality(PastTotal)
        /\ \A k \in CounterKeys \ {TotalKey} : counters[k] = Cardinality(PastStation(k))
        /\ (\A r \in Reqs : req[r].pc = "idle" \/ Failed(r)) =>
              \A k \in CounterKeys : counters[k] = 0
        /\ counters[TotalKey] >= SumOf(CounterKeys \ {TotalKey})
\* one request failed after its fetch, the other is between the two
\* increments: the total is ahead of the stations' counters
C18_Witness ==
    /\ program = "api" /\ kv = "up"
    /\ \E r, o \in Reqs :
          /\ Failed(r) /\ req[r].fetch # "none"
          /\ req[o].pc = "count_station"
    /\ counters[TotalKey] = 1
    /\ SumOf(CounterKeys \ {TotalKey}) = 0

====
